---- MODULE Spec2Model ----
(***************************************************************************)
(* Claims Management System (SCMS_postgres.py): the validation rules and   *)
(* the transaction discipline of ClaimsManagementSystem over the three     *)
(* relations policyholders, policies and claims.                           *)
(*                                                                         *)
(* Time: a datetime is an integer number of ticks, TicksPerDay ticks to a  *)
(* calendar day; a DATE column holds a day number.  Money: a Python float  *)
(* amount is an integer number of mills (1/1000); a DECIMAL(10,2) column   *)
(* holds a multiple of 10 mills.  Strings matched by a regular expression  *)
(* are sequences of one-character strings.  An Optional argument is <<>>   *)
(* (None) or <<v>>.                                                        *)
(***************************************************************************)
EXTENDS Integers, Sequences, FiniteSets, TLC

VARIABLES db, now, last, calls, conns

vars == <<db, now, last, calls, conns>>

\* ---------------------------------------------------------------- bounds

\* Ticks in one calendar day (granularity of time-of-day).
TicksPerDay == 2

\* How many ticks the clock may advance past its initial value.
MaxTicks == 2

\* ------------------------------------------------------- program constants

AdultDays == 18 * 365

SubmitWindowDays == 30

\* DECIMAL(10, 2): two fractional digits, i.e. a stored amount is a multiple
\* of MillsPerCent mills.
MillsPerCent == 10

OK == "ok"
ValidationError == "ValidationError"
BusinessRuleViolation == "BusinessRuleViolation"
DatabaseError == "DatabaseError"

Failures == {ValidationError, BusinessRuleViolation, DatabaseError}

\* ClaimStatus: the enumeration's members, by their persisted string labels.
ClaimStatus == {"Submitted", "Under Review", "Approved", "Rejected", "Closed"}

SUBMITTED == "Submitted"

\* ------------------------------------------------------------- conversions

None == <<>>
Some(v) == <<v>>
IsNone(o) == o = <<>>
Val(o) == o[1]

\* datetime.date(): the calendar day of a datetime.
DateOf(dt) == dt \div TicksPerDay

\* A date read back from a DATE column, as the instant at its midnight.
Midnight(d) == d * TicksPerDay

\* timedelta.days of a difference of two instants (floor).
DeltaDays(delta) == delta \div TicksPerDay

\* A datetime bound to a DATE column is stored as its calendar day.
ToDateColumn(dt) == DateOf(dt)

\* A float bound to a DECIMAL(10,2) column is rounded to two places (half
\* away from zero).
ToDecimalColumn(m) ==
    IF m >= 0 THEN ((m + (MillsPerCent \div 2)) \div MillsPerCent) * MillsPerCent
    ELSE -(((-m + (MillsPerCent \div 2)) \div MillsPerCent) * MillsPerCent)

\* The first failure of a sequence of checks run in order, OK if none fails.
RECURSIVE FirstFailure(_)
FirstFailure(rs) ==
    IF rs = <<>> THEN OK
    ELSE IF Head(rs) # OK THEN Head(rs) ELSE FirstFailure(Tail(rs))

\* ------------------------------------------------------ field validation

Digits == {"0", "1", "2", "3", "4", "5", "6", "7", "8", "9"}

\* re.match(r"[^@]+@[^@]+\.[^@]+", email): a match of a prefix of email.
EmailMatches(email) ==
    \E i \in 1..Len(email), k \in 1..Len(email) :
        /\ \A x \in 1..i : email[x] # "@"
        /\ i + 1 <= Len(email) /\ email[i + 1] = "@"
        /\ k >= i + 2
        /\ \A x \in (i + 2)..k : email[x] # "@"
        /\ k + 2 <= Len(email)
        /\ email[k + 1] = "."
        /\ email[k + 2] # "@"

validate_email(email) ==
    IF ~EmailMatches(email) THEN ValidationError ELSE OK

\* re.match(r"^\+?1?\d{9,15}$", phone): optional "+", optional "1", nine to
\* fifteen digits, then the end of the string or a final newline.
PhoneMatches(phone) ==
    \E plus \in {0, 1}, one \in {0, 1}, nl \in {0, 1} :
        LET n == Len(phone) - plus - one - nl IN
        /\ n >= 9 /\ n <= 15
        /\ plus = 1 => phone[1] = "+"
        /\ one = 1 => phone[plus + 1] = "1"
        /\ nl = 1 => phone[Len(phone)] = "\n"
        /\ \A x \in (plus + one + 1)..(plus + one + n) : phone[x] \in Digits

validate_phone_number(phone) ==
    IF ~PhoneMatches(phone) THEN ValidationError ELSE OK

\* Mutant: the age limit compared with <= (off by one day).
validate_date_of_birth_OffByOne(date_of_birth, t) ==
    IF date_of_birth > t THEN ValidationError
    ELSE IF DeltaDays(t - date_of_birth) <= AdultDays THEN BusinessRuleViolation
    ELSE OK

validate_date_of_birth(date_of_birth, t) ==
    IF date_of_birth > t THEN ValidationError
    ELSE IF DeltaDays(t - date_of_birth) < AdultDays THEN BusinessRuleViolation
    ELSE OK

validate_policyholder(policyholder, t) ==
    FirstFailure(<<validate_email(policyholder.email),
                   validate_phone_number(policyholder.contact_number),
                   validate_date_of_birth(policyholder.date_of_birth, t)>>)

\* ------------------------------------------------------------ the store

\* The relations as functions from primary key to row.
EmptyDb == [policyholders |-> <<>>, policies |-> <<>>, claims |-> <<>>]

Ids(table) == DOMAIN table

Put(table, id, row) ==
    [x \in Ids(table) \cup {id} |-> IF x = id THEN row ELSE table[x]]

Drop(table, gone) == [x \in Ids(table) \ gone |-> table[x]]

\* The row a policyholder binds to INSERT INTO policyholders.
PolicyholderRow(p) ==
    [name |-> p.name, contact_number |-> p.contact_number, email |-> p.email,
     date_of_birth |-> ToDateColumn(p.date_of_birth)]

\* Mutant: the two dates bound to each other's column.
PolicyRow_SwappedDates(p) ==
    [policyholder_id |-> p.policyholder_id, type |-> p.type,
     start_date |-> ToDateColumn(p.end_date),
     end_date |-> ToDateColumn(p.start_date),
     coverage_amount |-> ToDecimalColumn(p.coverage_amount),
     premium |-> ToDecimalColumn(p.premium)]

PolicyRow(p) ==
    [policyholder_id |-> p.policyholder_id, type |-> p.type,
     start_date |-> ToDateColumn(p.start_date),
     end_date |-> ToDateColumn(p.end_date),
     coverage_amount |-> ToDecimalColumn(p.coverage_amount),
     premium |-> ToDecimalColumn(p.premium)]

ClaimRow(c) ==
    [policy_id |-> c.policy_id,
     date_of_incident |-> ToDateColumn(c.date_of_incident),
     description |-> c.description,
     amount |-> ToDecimalColumn(c.amount),
     status |-> c.status,
     date_submitted |-> ToDateColumn(c.date_submitted)]

\* A statement's effect: err is a psycopg2.Error (a constraint of the schema is
\* violated and the statement changes nothing), rowcount the rows it touched.
Stmt(err, d, rowcount) == [err |-> err, db |-> d, rowcount |-> rowcount]

\* policyholders: id PRIMARY KEY, email UNIQUE.
InsertPolicyholder(d, p) ==
    IF \/ p.id \in Ids(d.policyholders)
       \/ \E h \in Ids(d.policyholders) : d.policyholders[h].email = p.email
    THEN Stmt(TRUE, d, 0)
    ELSE Stmt(FALSE,
              [d EXCEPT !.policyholders = Put(@, p.id, PolicyholderRow(p))], 1)

\* policies: id PRIMARY KEY, policyholder_id REFERENCES policyholders(id).
InsertPolicy(d, p) ==
    IF p.id \in Ids(d.policies) \/ p.policyholder_id \notin Ids(d.policyholders)
    THEN Stmt(TRUE, d, 0)
    ELSE Stmt(FALSE, [d EXCEPT !.policies = Put(@, p.id, PolicyRow(p))], 1)

\* claims: id PRIMARY KEY, policy_id REFERENCES policies(id).
InsertClaim(d, c) ==
    IF c.id \in Ids(d.claims) \/ c.policy_id \notin Ids(d.policies)
    THEN Stmt(TRUE, d, 0)
    ELSE Stmt(FALSE, [d EXCEPT !.claims = Put(@, c.id, ClaimRow(c))], 1)

\* The policies owned by the policyholders in hs, the claims on the policies
\* in ps (the two ON DELETE CASCADE edges).
PoliciesOf(d, hs) == {p \in Ids(d.policies) : d.policies[p].policyholder_id \in hs}

ClaimsOn(d, ps) == {c \in Ids(d.claims) : d.claims[c].policy_id \in ps}

\* Mutant: the cascade stops at the policies and leaves their claims.
DeletePolicyholder_NoClaimCascade(d, id) ==
    IF id \notin Ids(d.policyholders) THEN Stmt(FALSE, d, 0)
    ELSE Stmt(FALSE,
              [policyholders |-> Drop(d.policyholders, {id}),
               policies |-> Drop(d.policies, PoliciesOf(d, {id})),
               claims |-> d.claims], 1)

DeletePolicyholder(d, id) ==
    IF id \notin Ids(d.policyholders) THEN Stmt(FALSE, d, 0)
    ELSE LET ps == PoliciesOf(d, {id}) IN
         Stmt(FALSE,
              [policyholders |-> Drop(d.policyholders, {id}),
               policies |-> Drop(d.policies, ps),
               claims |-> Drop(d.claims, ClaimsOn(d, ps))], 1)

DeletePolicy(d, id) ==
    IF id \notin Ids(d.policies) THEN Stmt(FALSE, d, 0)
    ELSE Stmt(FALSE,
              [d EXCEPT !.policies = Drop(@, {id}),
                        !.claims = Drop(@, ClaimsOn(d, {id}))], 1)

DeleteClaim(d, id) ==
    IF id \notin Ids(d.claims) THEN Stmt(FALSE, d, 0)
    ELSE Stmt(FALSE, [d EXCEPT !.claims = Drop(@, {id})], 1)

\* Mutant: email without its UNIQUE constraint.
UpdatePolicyholder_NoUnique(d, id, set) ==
    IF id \notin DOMAIN d.policyholders THEN [err |-> FALSE, db |-> d, rowcount |-> 0]
    ELSE LET r == d.policyholders[id] IN
         [err |-> FALSE, rowcount |-> 1,
          db |-> [d EXCEPT !.policyholders[id] =
              [name |-> IF set.name = <<>> THEN r.name ELSE set.name[1],
               contact_number |-> IF set.contact_number = <<>>
                                  THEN r.contact_number ELSE set.contact_number[1],
               email |-> IF set.email = <<>> THEN r.email ELSE set.email[1],
               date_of_birth |->
                   IF set.date_of_birth = <<>> THEN r.date_of_birth
                   ELSE ToDateColumn(set.date_of_birth[1])]]]

\* UPDATE ... SET <the supplied columns> WHERE id: set maps each column to
\* None (not in the SET list) or Some(value).
Assign(old, new) == IF IsNone(new) THEN old ELSE Val(new)

UpdatePolicyholder(d, id, set) ==
    IF id \notin Ids(d.policyholders) THEN Stmt(FALSE, d, 0)
    ELSE IF /\ ~IsNone(set.email)
            /\ \E h \in Ids(d.policyholders) \ {id} :
                   d.policyholders[h].email = Val(set.email)
    THEN Stmt(TRUE, d, 0)
    ELSE LET r == d.policyholders[id] IN
         Stmt(FALSE,
              [d EXCEPT !.policyholders[id] =
                  [name |-> Assign(r.name, set.name),
                   contact_number |-> Assign(r.contact_number, set.contact_number),
                   email |-> Assign(r.email, set.email),
                   date_of_birth |->
                       IF IsNone(set.date_of_birth) THEN r.date_of_birth
                       ELSE ToDateColumn(Val(set.date_of_birth))]], 1)

UpdatePolicy(d, id, set) ==
    IF id \notin Ids(d.policies) THEN Stmt(FALSE, d, 0)
    ELSE LET r == d.policies[id] IN
         Stmt(FALSE,
              [d EXCEPT !.policies[id] =
                  [policyholder_id |-> r.policyholder_id,
                   type |-> Assign(r.type, set.type),
                   start_date |->
                       IF IsNone(set.start_date) THEN r.start_date
                       ELSE ToDateColumn(Val(set.start_date)),
                   end_date |->
                       IF IsNone(set.end_date) THEN r.end_date
                       ELSE ToDateColumn(Val(set.end_date)),
                   coverage_amount |->
                       IF IsNone(set.coverage_amount) THEN r.coverage_amount
                       ELSE ToDecimalColumn(Val(set.coverage_amount)),
                   premium |->
                       IF IsNone(set.premium) THEN r.premium
                       ELSE ToDecimalColumn(Val(set.premium))]], 1)

\* Mutant: a closed claim keeps its status.
UpdateClaim_ClosedIsTerminal(d, id, set) ==
    IF id \notin Ids(d.claims) THEN Stmt(FALSE, d, 0)
    ELSE LET r == d.claims[id] IN
         Stmt(FALSE,
              [d EXCEPT !.claims[id] =
                  [policy_id |-> r.policy_id,
                   date_of_incident |-> r.date_of_incident,
                   description |-> Assign(r.description, set.description),
                   amount |->
                       IF IsNone(set.amount) THEN r.amount
                       ELSE ToDecimalColumn(Val(set.amount)),
                   status |-> IF r.status = "Closed" THEN r.status
                              ELSE Assign(r.status, set.status),
                   date_submitted |-> r.date_submitted]], 1)

UpdateClaim(d, id, set) ==
    IF id \notin Ids(d.claims) THEN Stmt(FALSE, d, 0)
    ELSE LET r == d.claims[id] IN
         Stmt(FALSE,
              [d EXCEPT !.claims[id] =
                  [policy_id |-> r.policy_id,
                   date_of_incident |-> r.date_of_incident,
                   description |-> Assign(r.description, set.description),
                   amount |->
                       IF IsNone(set.amount) THEN r.amount
                       ELSE ToDecimalColumn(Val(set.amount)),
                   status |-> Assign(r.status, set.status),
                   date_submitted |-> r.date_submitted]], 1)

\* ------------------------------------------------------------ point reads

\* get_policyholder / get_policy / get_claim: None, or the dataclass built from
\* the row (DATE columns come back as dates, i.e. midnights).  Each runs in a
\* transaction of its own on a new connection, so d is the committed store.
get_policyholder(d, id) ==
    IF id \notin Ids(d.policyholders) THEN None
    ELSE LET r == d.policyholders[id] IN
         Some([id |-> id, name |-> r.name, contact_number |-> r.contact_number,
               email |-> r.email, date_of_birth |-> Midnight(r.date_of_birth)])

get_policy(d, id) ==
    IF id \notin Ids(d.policies) THEN None
    ELSE LET r == d.policies[id] IN
         Some([id |-> id, policyholder_id |-> r.policyholder_id, type |-> r.type,
               start_date |-> Midnight(r.start_date),
               end_date |-> Midnight(r.end_date),
               coverage_amount |-> r.coverage_amount, premium |-> r.premium])

get_claim(d, id) ==
    IF id \notin Ids(d.claims) THEN None
    ELSE LET r == d.claims[id] IN
         Some([id |-> id, policy_id |-> r.policy_id,
               date_of_incident |-> Midnight(r.date_of_incident),
               description |-> r.description, amount |-> r.amount,
               status |-> r.status,
               date_submitted |-> Midnight(r.date_submitted)])

\* ------------------------------------------------- cross-entity validation

\* Mutant: an empty coverage window (start = end) passes.
validate_policy_EmptyWindow(cur, policy) ==
    IF policy.policyholder_id \notin Ids(cur.policyholders) THEN ValidationError
    ELSE IF policy.start_date > policy.end_date THEN ValidationError
    ELSE IF policy.coverage_amount <= 0 THEN ValidationError
    ELSE IF policy.premium <= 0 THEN ValidationError
    ELSE IF DateOf(policy.start_date)
              - cur.policyholders[policy.policyholder_id].date_of_birth < AdultDays
    THEN BusinessRuleViolation
    ELSE OK

\* cur is the store as the calling transaction's cursor sees it.
validate_policy(cur, policy) ==
    IF policy.policyholder_id \notin Ids(cur.policyholders) THEN ValidationError
    ELSE IF policy.start_date >= policy.end_date THEN ValidationError
    ELSE IF policy.coverage_amount <= 0 THEN ValidationError
    ELSE IF policy.premium <= 0 THEN ValidationError
    ELSE IF DateOf(policy.start_date)
              - cur.policyholders[policy.policyholder_id].date_of_birth < AdultDays
    THEN BusinessRuleViolation
    ELSE OK

\* Mutant: the submission window compared with >= (the thirtieth day is late).
validate_claim_OffByOne(cur, claim) ==
    IF claim.policy_id \notin Ids(cur.policies) THEN ValidationError
    ELSE LET policy == cur.policies[claim.policy_id]
             incident == DateOf(claim.date_of_incident)
             submitted == DateOf(claim.date_submitted)
         IN IF incident < policy.start_date \/ incident > policy.end_date
            THEN ValidationError
            ELSE IF claim.amount <= 0 \/ claim.amount > policy.coverage_amount
            THEN ValidationError
            ELSE IF submitted < incident THEN ValidationError
            ELSE IF submitted - incident >= SubmitWindowDays
            THEN BusinessRuleViolation
            ELSE OK

\* Mutant: the submission window is checked before the field rules.
validate_claim_LateFirst(cur, claim) ==
    IF claim.policy_id \notin Ids(cur.policies) THEN ValidationError
    ELSE LET policy == cur.policies[claim.policy_id]
             incident == DateOf(claim.date_of_incident)
             submitted == DateOf(claim.date_submitted)
         IN IF submitted - incident > SubmitWindowDays
            THEN BusinessRuleViolation
            ELSE IF incident < policy.start_date \/ incident > policy.end_date
            THEN ValidationError
            ELSE IF claim.amount <= 0 \/ claim.amount > policy.coverage_amount
            THEN ValidationError
            ELSE IF submitted < incident THEN ValidationError
            ELSE OK

validate_claim(cur, claim) ==
    IF claim.policy_id \notin Ids(cur.policies) THEN ValidationError
    ELSE LET policy == cur.policies[claim.policy_id]
             incident == DateOf(claim.date_of_incident)
             submitted == DateOf(claim.date_submitted)
         IN IF incident < policy.start_date \/ incident > policy.end_date
            THEN ValidationError
            ELSE IF claim.amount <= 0 \/ claim.amount > policy.coverage_amount
            THEN ValidationError
            ELSE IF submitted < incident THEN ValidationError
            ELSE IF submitted - incident > SubmitWindowDays
            THEN BusinessRuleViolation
            ELSE OK

\* --------------------------------------------------- transaction coordinator

\* Mutant: only a psycopg2.Error is rolled back; closing the connection after
\* any other exception commits.
execute_transaction_CommitOnClose(outcome, committed, work) ==
    IF outcome = DatabaseError THEN committed ELSE work

\* _execute_transaction: func ran on a cursor of a fresh connection, leaving
\* the transaction's view work.  It is committed when func returned; a
\* psycopg2.Error is rolled back and raised as DatabaseError; any other
\* exception leaves the with block, the connection is closed uncommitted and
\* the server discards the transaction.
execute_transaction(outcome, committed, work) ==
    IF outcome = OK THEN work ELSE committed

\* What the last public operation was and how it ended: wrote, whether its
\* INSERT/UPDATE/DELETE statement executed and touched a row before the end;
\* missing, whether the identifier it addressed was not stored; cascaded, the
\* dependent rows its DELETE removed by ON DELETE CASCADE; validated, whether
\* it handed a whole record to _validate_policyholder, _validate_policy or
\* _validate_claim.
Ended(op, outcome, wrote, missing, cascaded, validated) ==
    [op |-> op, result |-> outcome, wrote |-> wrote, missing |-> missing,
     cascaded |-> cascaded, validated |-> validated]

\* Python truthiness of an Optional[str]: neither None nor empty.  Text is a
\* string; a number or address matched by a pattern is a sequence of characters.
TruthyText(o) == ~IsNone(o) /\ Val(o) # ""

Truthy(o) == ~IsNone(o) /\ Val(o) # <<>>

\* A supplied string column enters the SET list only when it is truthy.
IfTruthyText(o) == IF TruthyText(o) THEN o ELSE None

IfTruthy(o) == IF Truthy(o) THEN o ELSE None

\* ------------------------------------------------------------- operations

create_policyholder(policyholder) ==
    LET valid == validate_policyholder(policyholder, now)
        ins == InsertPolicyholder(db, policyholder)
        outcome == IF valid # OK THEN valid
                   ELSE IF ins.err THEN DatabaseError ELSE OK
        work == IF valid = OK THEN ins.db ELSE db
    IN /\ db' = execute_transaction(outcome, db, work)
       /\ last' = Ended("create_policyholder", outcome,
                        valid = OK /\ ins.rowcount > 0,
                        policyholder.id \notin Ids(db.policyholders), 0, TRUE)
       /\ UNCHANGED <<now, calls, conns>>

update_policyholder(policyholder_id, name, contact_number, email, date_of_birth) ==
    LET policyholder == get_policyholder(db, policyholder_id)
        set == [name |-> IfTruthyText(name),
                contact_number |-> IfTruthy(contact_number),
                email |-> IfTruthy(email),
                date_of_birth |-> date_of_birth]
        valid == FirstFailure(<<
            IF IsNone(policyholder) THEN ValidationError ELSE OK,
            IF Truthy(contact_number)
                THEN validate_phone_number(Val(contact_number)) ELSE OK,
            IF Truthy(email) THEN validate_email(Val(email)) ELSE OK,
            IF ~IsNone(date_of_birth)
                THEN validate_date_of_birth(Val(date_of_birth), now) ELSE OK>>)
        update_fields == \E f \in DOMAIN set : ~IsNone(set[f])
        upd == IF valid = OK /\ update_fields
               THEN UpdatePolicyholder(db, policyholder_id, set)
               ELSE Stmt(FALSE, db, 0)
        outcome == IF valid # OK THEN valid
                   ELSE IF upd.err THEN DatabaseError ELSE OK
    IN /\ db' = execute_transaction(outcome, db, upd.db)
       /\ last' = Ended("update_policyholder", outcome, upd.rowcount > 0,
                        IsNone(policyholder), 0, FALSE)
       /\ UNCHANGED <<now, calls, conns>>

delete_policyholder(policyholder_id) ==
    LET del == DeletePolicyholder(db, policyholder_id)
        outcome == IF del.rowcount = 0 THEN ValidationError ELSE OK
        ps == PoliciesOf(db, {policyholder_id})
    IN /\ db' = execute_transaction(outcome, db, del.db)
       /\ last' = Ended("delete_policyholder", outcome, del.rowcount > 0,
                        policyholder_id \notin Ids(db.policyholders),
                        IF del.rowcount = 0 THEN 0
                        ELSE Cardinality(ps) + Cardinality(ClaimsOn(db, ps)),
                        FALSE)
       /\ UNCHANGED <<now, calls, conns>>

create_policy(policy) ==
    LET valid == validate_policy(db, policy)
        ins == InsertPolicy(db, policy)
        outcome == IF valid # OK THEN valid
                   ELSE IF ins.err THEN DatabaseError ELSE OK
        work == IF valid = OK THEN ins.db ELSE db
    IN /\ db' = execute_transaction(outcome, db, work)
       /\ last' = Ended("create_policy", outcome,
                        valid = OK /\ ins.rowcount > 0,
                        policy.id \notin Ids(db.policies), 0, TRUE)
       /\ UNCHANGED <<now, calls, conns>>

\* The two get_policy calls run on connections of their own: both read the
\* committed store db, also the one after the UPDATE on cur.
update_policy(policy_id, type, start_date, end_date, coverage_amount, premium) ==
    LET policy == get_policy(db, policy_id)
        set == [type |-> IfTruthyText(type), start_date |-> start_date,
                end_date |-> end_date, coverage_amount |-> coverage_amount,
                premium |-> premium]
        update_fields == \E f \in DOMAIN set : ~IsNone(set[f])
        upd == IF ~IsNone(policy) /\ update_fields
               THEN UpdatePolicy(db, policy_id, set)
               ELSE Stmt(FALSE, db, 0)
        updated_policy == get_policy(db, policy_id)
        outcome == IF IsNone(policy) THEN ValidationError
                   ELSE validate_policy(upd.db, Val(updated_policy))
    IN /\ db' = execute_transaction(outcome, db, upd.db)
       /\ last' = Ended("update_policy", outcome, upd.rowcount > 0,
                        IsNone(policy), 0, ~IsNone(policy))
       /\ UNCHANGED <<now, calls, conns>>

\* Mutant: the DELETE's rowcount is not looked at.
delete_policy_Silent(policy_id) ==
    LET del == DeletePolicy(db, policy_id)
    IN /\ db' = execute_transaction(OK, db, del.db)
       /\ last' = Ended("delete_policy", OK, del.rowcount > 0,
                        policy_id \notin Ids(db.policies), 0, FALSE)
       /\ UNCHANGED <<now, calls, conns>>

delete_policy(policy_id) ==
    LET del == DeletePolicy(db, policy_id)
        outcome == IF del.rowcount = 0 THEN ValidationError ELSE OK
    IN /\ db' = execute_transaction(outcome, db, del.db)
       /\ last' = Ended("delete_policy", outcome, del.rowcount > 0,
                        policy_id \notin Ids(db.policies),
                        IF del.rowcount = 0 THEN 0
                        ELSE Cardinality(ClaimsOn(db, {policy_id})), FALSE)
       /\ UNCHANGED <<now, calls, conns>>

create_claim(claim) ==
    LET valid == validate_claim(db, claim)
        ins == InsertClaim(db, claim)
        outcome == IF valid # OK THEN valid
                   ELSE IF ins.err THEN DatabaseError ELSE OK
        work == IF valid = OK THEN ins.db ELSE db
    IN /\ db' = execute_transaction(outcome, db, work)
       /\ last' = Ended("create_claim", outcome,
                        valid = OK /\ ins.rowcount > 0,
                        claim.id \notin Ids(db.claims), 0, TRUE)
       /\ UNCHANGED <<now, calls, conns>>

\* As in update_policy, both get_claim calls read the committed store.
update_claim(claim_id, description, amount, status) ==
    LET claim == get_claim(db, claim_id)
        set == [description |-> IfTruthyText(description), amount |-> amount,
                status |-> status]
        update_fields == \E f \in DOMAIN set : ~IsNone(set[f])
        upd == IF ~IsNone(claim) /\ update_fields
               THEN UpdateClaim(db, claim_id, set)
               ELSE Stmt(FALSE, db, 0)
        updated_claim == get_claim(db, claim_id)
        outcome == IF IsNone(claim) THEN ValidationError
                   ELSE validate_claim(upd.db, Val(updated_claim))
    IN /\ db' = execute_transaction(outcome, db, upd.db)
       /\ last' = Ended("update_claim", outcome, upd.rowcount > 0,
                        IsNone(claim), 0, ~IsNone(claim))
       /\ UNCHANGED <<now, calls, conns>>

delete_claim(claim_id) ==
    LET del == DeleteClaim(db, claim_id)
        outcome == IF del.rowcount = 0 THEN ValidationError ELSE OK
    IN /\ db' = execute_transaction(outcome, db, del.db)
       /\ last' = Ended("delete_claim", outcome, del.rowcount > 0,
                        claim_id \notin Ids(db.claims), 0, FALSE)
       /\ UNCHANGED <<now, calls, conns>>

\* ------------------------------------------------ operations, step by step
\*
\* The same nine operations as sequences of steps of a caller (a request
\* thread), so that two callers interleave.  calls[c] is where caller c is in
\* its operation; conns[c] is the stack of connections it holds open, the
\* one opened by the operation's own _execute_transaction first, the ones of
\* the get_* it calls from inside it after.  psycopg2.connect is taken to
\* succeed.

Callers == {1, 2}

\* A connection with the transaction open on it: the statement that wrote (at
\* most one per unit of work) and the row locks it took.
NoLocks == [rows |-> {}, emails |-> {}]

NewConnection == [stmt |-> None, locks |-> NoLocks]

Statement(sql, id, arg) == [sql |-> sql, id |-> id, arg |-> arg]

Exec(d, s) ==
    CASE s.sql = "INSERT policyholders" -> InsertPolicyholder(d, s.arg)
      [] s.sql = "INSERT policies" -> InsertPolicy(d, s.arg)
      [] s.sql = "INSERT claims" -> InsertClaim(d, s.arg)
      [] s.sql = "UPDATE policyholders" -> UpdatePolicyholder(d, s.id, s.arg)
      [] s.sql = "UPDATE policies" -> UpdatePolicy(d, s.id, s.arg)
      [] s.sql = "UPDATE claims" -> UpdateClaim(d, s.id, s.arg)
      [] s.sql = "DELETE policyholders" -> DeletePolicyholder(d, s.id)
      [] s.sql = "DELETE policies" -> DeletePolicy(d, s.id)
      [] s.sql = "DELETE claims" -> DeleteClaim(d, s.id)

\* The row locks a statement takes on the committed store d: "key" (a DELETE,
\* or the index entry of an INSERT), "nokey" (an UPDATE of columns no foreign
\* key refers to), "share" (the parent row of an inserted child).  An UPDATE
\* or DELETE locks only rows it finds.  emails are the entries of the UNIQUE
\* index on policyholders.email the statement adds or removes.
RowLocks(mode, rel, ids) == {<<mode, rel, i>> : i \in ids}

LocksOf(d, s) ==
    CASE s.sql = "INSERT policyholders" ->
           [rows |-> RowLocks("key", "policyholders", {s.id}),
            emails |-> {s.arg.email}]
      [] s.sql = "INSERT policies" ->
           [rows |-> RowLocks("key", "policies", {s.id})
                       \cup RowLocks("share", "policyholders",
                                     {s.arg.policyholder_id}),
            emails |-> {}]
      [] s.sql = "INSERT claims" ->
           [rows |-> RowLocks("key", "claims", {s.id})
                       \cup RowLocks("share", "policies", {s.arg.policy_id}),
            emails |-> {}]
      [] s.sql = "UPDATE policyholders" ->
           IF s.id \notin Ids(d.policyholders) THEN NoLocks
           ELSE [rows |-> RowLocks("nokey", "policyholders", {s.id}),
                 emails |-> IF IsNone(s.arg.email) THEN {}
                            ELSE {d.policyholders[s.id].email, Val(s.arg.email)}]
      [] s.sql = "UPDATE policies" ->
           [rows |-> RowLocks("nokey", "policies", {s.id} \cap Ids(d.policies)),
            emails |-> {}]
      [] s.sql = "UPDATE claims" ->
           [rows |-> RowLocks("nokey", "claims", {s.id} \cap Ids(d.claims)),
            emails |-> {}]
      [] s.sql = "DELETE policyholders" ->
           IF s.id \notin Ids(d.policyholders) THEN NoLocks
           ELSE LET ps == PoliciesOf(d, {s.id}) IN
                [rows |-> RowLocks("key", "policyholders", {s.id})
                            \cup RowLocks("key", "policies", ps)
                            \cup RowLocks("key", "claims", ClaimsOn(d, ps)),
                 emails |-> {d.policyholders[s.id].email}]
      [] s.sql = "DELETE policies" ->
           [rows |-> RowLocks("key", "policies", {s.id} \cap Ids(d.policies))
                       \cup RowLocks("key", "claims",
                                     IF s.id \in Ids(d.policies)
                                     THEN ClaimsOn(d, {s.id}) ELSE {}),
            emails |-> {}]
      [] s.sql = "DELETE claims" ->
           [rows |-> RowLocks("key", "claims", {s.id} \cap Ids(d.claims)),
            emails |-> {}]

\* Two locks on one row exclude each other unless both are shared or one is
\* shared and the other an UPDATE's.
Conflict(a, b) ==
    /\ a[2] = b[2] /\ a[3] = b[3]
    /\ \/ "key" \in {a[1], b[1]}
       \/ a[1] = "nokey" /\ b[1] = "nokey"

\* Caller c's statement s has to wait: a transaction of another caller holds a
\* lock that excludes one it needs.
Blocked(c, s) ==
    LET need == LocksOf(db, s) IN
    \E o \in Callers \ {c} :
        /\ conns[o] # <<>>
        /\ LET held == conns[o][1].locks IN
           \/ \E h \in held.rows, n \in need.rows : Conflict(h, n)
           \/ held.emails \cap need.emails # {}

\* The store as the cursor of caller c's own transaction sees it (READ
\* COMMITTED): what is committed, with the transaction's own write applied.
View(c) ==
    LET tx == conns[c][1] IN
    IF IsNone(tx.stmt) THEN db ELSE Exec(db, Val(tx.stmt)).db

Idle == [op |-> "idle", args |-> None, pc |-> "idle", got |-> None,
         updated |-> None, result |-> OK]

\* The caller invokes a public operation with its arguments.
Call(c, op, args) ==
    /\ calls[c].pc = "idle"
    /\ calls' = [calls EXCEPT ![c] =
                    [op |-> op, args |-> args, pc |-> "connect", got |-> None,
                     updated |-> None, result |-> OK]]
    /\ UNCHANGED <<db, now, last, conns>>

Creates == {"create_policyholder", "create_policy", "create_claim"}

Updates == {"update_policyholder", "update_policy", "update_claim"}

Deletes == {"delete_policyholder", "delete_policy", "delete_claim"}

\* _execute_transaction enters get_db_connection: the operation's connection.
get_db_connection(c) ==
    /\ calls[c].pc = "connect"
    /\ conns' = [conns EXCEPT ![c] = <<NewConnection>>]
    /\ calls' = [calls EXCEPT ![c].pc =
                    IF calls[c].op \in Updates THEN "get"
                    ELSE IF calls[c].op \in Deletes THEN "execute"
                    ELSE "validate"]
    /\ UNCHANGED <<db, now, last>>

\* self.get_policyholder / get_policy / get_claim called from inside _update:
\* its own _execute_transaction opens one more connection.
get_enter(c) ==
    /\ calls[c].pc \in {"get", "get_again"}
    /\ conns' = [conns EXCEPT ![c] = Append(@, NewConnection)]
    /\ calls' = [calls EXCEPT ![c].pc =
                    IF calls[c].pc = "get" THEN "select" ELSE "select_again"]
    /\ UNCHANGED <<db, now, last>>

GetOf(op, d, id) ==
    CASE op = "update_policyholder" -> get_policyholder(d, id)
      [] op = "update_policy" -> get_policy(d, id)
      [] op = "update_claim" -> get_claim(d, id)

\* The get's SELECT on its own connection reads the committed store; the get
\* commits, closes its connection and returns.  After the first get, a record
\* not found raises ValidationError.
get_return(c) ==
    LET call == calls[c]
        record == GetOf(call.op, db, call.args.id)
    IN /\ call.pc \in {"select", "select_again"}
       /\ conns' = [conns EXCEPT ![c] = SubSeq(@, 1, Len(@) - 1)]
       /\ calls' = [calls EXCEPT ![c] =
                       IF call.pc = "select_again"
                       THEN [call EXCEPT !.updated = record, !.pc = "validate"]
                       ELSE IF IsNone(record)
                       THEN [call EXCEPT !.got = record, !.pc = "exit",
                                         !.result = ValidationError]
                       ELSE [call EXCEPT !.got = record, !.pc = "execute"]]
       /\ UNCHANGED <<db, now, last>>

\* What an argument-less attribute access on None raises in _validate_policy
\* and _validate_claim; not one of the three kinds of Failures.
AttributeError == "AttributeError"

\* The validation on the operation's cursor: of the new record before the
\* INSERT; in update_policy and update_claim, of the record the second get
\* returned, whose first attribute access fails when the get returned None.
validate(c) ==
    LET call == calls[c]
        valid ==
            CASE call.op = "create_policyholder" ->
                   validate_policyholder(call.args, now)
              [] call.op = "create_policy" -> validate_policy(View(c), call.args)
              [] call.op = "create_claim" -> validate_claim(View(c), call.args)
              [] call.op = "update_policy" ->
                   IF IsNone(call.updated) THEN AttributeError
                   ELSE validate_policy(View(c), Val(call.updated))
              [] call.op = "update_claim" ->
                   IF IsNone(call.updated) THEN AttributeError
                   ELSE validate_claim(View(c), Val(call.updated))
    IN /\ call.pc = "validate"
       /\ calls' = [calls EXCEPT ![c] =
                       IF call.op \in Creates /\ valid = OK
                       THEN [call EXCEPT !.pc = "execute"]
                       ELSE [call EXCEPT !.pc = "exit", !.result = valid]]
       /\ UNCHANGED <<db, now, last, conns>>

\* The SET list an update builds from its arguments.
SetOf(op, args) ==
    CASE op = "update_policyholder" ->
           [name |-> IfTruthyText(args.name),
            contact_number |-> IfTruthy(args.contact_number),
            email |-> IfTruthy(args.email),
            date_of_birth |-> args.date_of_birth]
      [] op = "update_policy" ->
           [type |-> IfTruthyText(args.type), start_date |-> args.start_date,
            end_date |-> args.end_date,
            coverage_amount |-> args.coverage_amount, premium |-> args.premium]
      [] op = "update_claim" ->
           [description |-> IfTruthyText(args.description),
            amount |-> args.amount, status |-> args.status]

\* The statement of an operation.
StatementOf(op, args) ==
    CASE op = "create_policyholder" ->
           Statement("INSERT policyholders", args.id, args)
      [] op = "create_policy" -> Statement("INSERT policies", args.id, args)
      [] op = "create_claim" -> Statement("INSERT claims", args.id, args)
      [] op = "update_policyholder" ->
           Statement("UPDATE policyholders", args.id, SetOf(op, args))
      [] op = "update_policy" ->
           Statement("UPDATE policies", args.id, SetOf(op, args))
      [] op = "update_claim" ->
           Statement("UPDATE claims", args.id, SetOf(op, args))
      [] op = "delete_policyholder" ->
           Statement("DELETE policyholders", args.id, None)
      [] op = "delete_policy" -> Statement("DELETE policies", args.id, None)
      [] op = "delete_claim" -> Statement("DELETE claims", args.id, None)

\* cur.execute of the operation's INSERT, UPDATE or DELETE, on the operation's
\* connection.  update_policyholder validates the supplied fields first; an
\* update with an empty SET list executes nothing.  The statement waits while
\* another transaction holds a lock it needs.  A psycopg2.Error becomes
\* DatabaseError, a DELETE that found no row raises ValidationError; an update
\* does not look at the row count.
execute(c) ==
    LET call == calls[c]
        stmt == StatementOf(call.op, call.args)
        valid ==
            IF call.op # "update_policyholder" THEN OK
            ELSE FirstFailure(<<
                IF Truthy(call.args.contact_number)
                    THEN validate_phone_number(Val(call.args.contact_number))
                    ELSE OK,
                IF Truthy(call.args.email)
                    THEN validate_email(Val(call.args.email)) ELSE OK,
                IF ~IsNone(call.args.date_of_birth)
                    THEN validate_date_of_birth(Val(call.args.date_of_birth), now)
                    ELSE OK>>)
        update_fields ==
            call.op \in Updates => \E f \in DOMAIN stmt.arg : ~IsNone(stmt.arg[f])
        executes == valid = OK /\ update_fields
        done == IF executes THEN Exec(db, stmt) ELSE Stmt(FALSE, db, 0)
        outcome == IF valid # OK THEN valid
                   ELSE IF done.err THEN DatabaseError
                   ELSE IF call.op \in Deletes /\ done.rowcount = 0
                   THEN ValidationError
                   ELSE OK
    IN /\ call.pc = "execute"
       /\ executes => ~Blocked(c, stmt)
       /\ conns' = [conns EXCEPT ![c][1] =
                       IF executes /\ done.rowcount > 0
                       THEN [stmt |-> Some(stmt), locks |-> LocksOf(db, stmt)]
                       ELSE @]
       /\ calls' = [calls EXCEPT ![c] =
                       IF outcome = OK /\ call.op \in {"update_policy", "update_claim"}
                       THEN [call EXCEPT !.pc = "get_again"]
                       ELSE [call EXCEPT !.pc = "exit", !.result = outcome]]
       /\ UNCHANGED <<db, now, last>>

\* Mutant: the connection is closed only when func returned.
execute_transaction_exit_LeakOnRaise(c) ==
    LET call == calls[c]
    IN /\ call.pc = "exit"
       /\ db' = execute_transaction(call.result, db, View(c))
       /\ conns' = [conns EXCEPT ![c] = IF call.result = OK THEN <<>> ELSE @]
       /\ calls' = [calls EXCEPT ![c] =
                       [Idle EXCEPT !.op = call.op, !.result = call.result]]
       /\ UNCHANGED <<now, last>>

\* The end of _execute_transaction: func returned and the transaction is
\* committed, or it raised and the transaction is rolled back or discarded;
\* either way get_db_connection's finally closes the connection and the
\* operation returns or raises to the caller.
execute_transaction_exit(c) ==
    LET call == calls[c]
    IN /\ call.pc = "exit"
       /\ db' = execute_transaction(call.result, db, View(c))
       /\ conns' = [conns EXCEPT ![c] = <<>>]
       /\ calls' = [calls EXCEPT ![c] =
                       [Idle EXCEPT !.op = call.op, !.result = call.result]]
       /\ UNCHANGED <<now, last>>

\* A step of caller c inside its operation.
Step(c) ==
    \/ get_db_connection(c)
    \/ get_enter(c)
    \/ get_return(c)
    \/ validate(c)
    \/ execute(c)
    \/ execute_transaction_exit(c)

\* ------------------------------------------------------------------ inputs

Opt(S) == {None} \cup {Some(v) : v \in S}

Nine == <<"5", "5", "5", "0", "1", "0", "0", "0", "1">>

\* Two addresses the pattern accepts and one it rejects.
Ann == <<"a", "@", "b", ".", "c">>
Bob == <<"d", "@", "b", ".", "c">>
NoAt == <<"a", "b", ".", "c">>

\* Two numbers the pattern accepts and one (eight digits) it rejects.
PlusOneNine == <<"+", "1">> \o Nine
Eight == <<"+">> \o Tail(Nine)

\* The clock starts at the midnight at which somebody born at midnight of day
\* 0 comes of age.
Today == Midnight(AdultDays)

Day == TicksPerDay

\* Dates of birth: of age at Today, of age one tick later, of age one day
\* later, a child, not yet born.
Births == {0, 1, Day, Midnight(AdultDays \div 2), Today + MaxTicks + 1}

Init ==
    /\ db = EmptyDb
    /\ now = Today
    /\ last = Ended("init_db", OK, FALSE, FALSE, 0, FALSE)
    /\ calls = [c \in Callers |-> Idle]
    /\ conns = [c \in Callers |-> <<>>]

Tick ==
    /\ now < Today + MaxTicks
    /\ now' = now + 1
    /\ UNCHANGED <<db, last, calls, conns>>

\* ------------------------------------- specification: policyholders only

HolderInputs ==
    [id : {1, 2}, name : {"Ann"}, contact_number : {Nine, Eight},
     email : {Ann, Bob, NoAt}, date_of_birth : Births]

HolderUpdates ==
    [id : {1, 2}, name : Opt({""}), contact_number : Opt({PlusOneNine, Eight}),
     email : Opt({Bob, NoAt, <<>>}),
     date_of_birth : Opt({Day, Today + MaxTicks + 1})]

NextHolders ==
    \/ Tick
    \/ \E p \in HolderInputs : create_policyholder(p)
    \/ \E u \in HolderUpdates :
          update_policyholder(u.id, u.name, u.contact_number, u.email,
                              u.date_of_birth)
    \/ \E id \in {1, 2} : delete_policyholder(id)

SpecHolders == Init /\ [][NextHolders]_vars

\* ------------------------------- specification: policyholders and policies

\* Coverage and premium in mills: nothing, ten units, a fraction of a cent more.
PolicyInputs ==
    [id : {1}, policyholder_id : {1, 2}, type : {"life"},
     start_date : {Today - Day, Today, Today + 1},
     end_date : {Today, Today + Day},
     coverage_amount : {0, 10000, 10004}, premium : {0, 10000}]

PolicyUpdates ==
    [id : {1, 2}, type : Opt({"", "home"}), start_date : Opt({Today - Day, Today}),
     end_date : Opt({Today}), coverage_amount : Opt({0, 10000}),
     premium : Opt({0, 10000})]

NextPolicies ==
    \/ Tick
    \/ \E p \in [id : {1}, name : {"Ann"}, contact_number : {Nine},
                 email : {Ann}, date_of_birth : {-Day, 0, Day}] :
          create_policyholder(p)
    \/ \E date_of_birth \in Opt({-Day, 0}) :
          update_policyholder(1, None, None, None, date_of_birth)
    \/ \E id \in {1, 2} : delete_policyholder(id)
    \/ \E p \in PolicyInputs : create_policy(p)
    \/ \E u \in PolicyUpdates :
          update_policy(u.id, u.type, u.start_date, u.end_date,
                        u.coverage_amount, u.premium)
    \/ \E id \in {1, 2} : delete_policy(id)

SpecPolicies == Init /\ [][NextPolicies]_vars

\* ------------------------------------ specification: one chain, all fields

\* Incidents before, at the first day of, at the last day of and after the
\* window [Today, Today + Day]; submissions the day before, thirty and
\* thirty-one days after Today.
ClaimInputs ==
    [id : {1}, policy_id : {1, 2},
     date_of_incident : {Today - Day, Today + 1, Today + Day, Today + 2 * Day},
     description : {"fire"}, amount : {0, 9996, 11000}, status : {SUBMITTED},
     date_submitted : {Today - 1, Today + 30 * Day, Today + 31 * Day}]

ClaimUpdates ==
    [id : {1, 2}, description : Opt({"", "flood"}),
     amount : Opt({0, 10000, 11000}), status : Opt({"Approved"})]

NextClaims ==
    \/ \E p \in [id : {1}, name : {"Ann"}, contact_number : {Nine},
                 email : {Ann, NoAt}, date_of_birth : {0, Day}] :
          create_policyholder(p)
    \/ \E id \in {1, 2}, email \in Opt({Ann, NoAt}), date_of_birth \in Opt({Day}) :
          update_policyholder(id, None, None, email, date_of_birth)
    \/ \E id \in {1, 2} : delete_policyholder(id)
    \/ \E p \in [id : {1}, policyholder_id : {1, 2}, type : {"life"},
                 start_date : {Today, Today + Day}, end_date : {Today + Day},
                 coverage_amount : {0, 10000}, premium : {10000}] :
          create_policy(p)
    \/ \E id \in {1, 2}, start_date \in Opt({Today + Day}),
          coverage_amount \in Opt({0, 10000}) :
          update_policy(id, None, start_date, None, coverage_amount, None)
    \/ \E id \in {1, 2} : delete_policy(id)
    \/ \E c \in ClaimInputs : create_claim(c)
    \/ \E u \in ClaimUpdates :
          update_claim(u.id, u.description, u.amount, u.status)
    \/ \E id \in {1, 2} : delete_claim(id)

SpecClaims == Init /\ [][NextClaims]_vars

\* --------------------------------- specification: several records, cascades

\* Identifiers 1 and 2 can be created, 3 never is.
AnyId == {1, 2, 3}

UpdatePolicyholderCall(id) ==
    \E email \in Opt({Ann}), date_of_birth \in Opt({Day}) :
        update_policyholder(id, None, None, email, date_of_birth)

UpdatePolicyCall(id) ==
    \E coverage_amount \in Opt({10000}) :
        update_policy(id, None, None, None, coverage_amount, None)

UpdateClaimCall(id) ==
    \E status \in Opt({SUBMITTED}) : update_claim(id, None, None, status)

Next ==
    \/ \E p \in [id : {1, 2}, name : {"Ann"}, contact_number : {Nine},
                 email : {Ann, Bob}, date_of_birth : {0, Day}] :
          create_policyholder(p)
    \/ \E id \in AnyId : UpdatePolicyholderCall(id)
    \/ \E id \in AnyId : delete_policyholder(id)
    \/ \E p \in [id : {1, 2}, policyholder_id : {1, 2}, type : {"life"},
                 start_date : {Today}, end_date : {Today + Day},
                 coverage_amount : {0, 10000}, premium : {10000}] :
          create_policy(p)
    \/ \E id \in AnyId : UpdatePolicyCall(id)
    \/ \E id \in AnyId : delete_policy(id)
    \/ \E c \in [id : {1, 2}, policy_id : {1, 2}, date_of_incident : {Today},
                 description : {"fire"}, amount : {10000, 11000},
                 status : {SUBMITTED}, date_submitted : {Today, Today + 31 * Day}] :
          create_claim(c)
    \/ \E id \in AnyId : UpdateClaimCall(id)
    \/ \E id \in AnyId : delete_claim(id)

Spec == Init /\ [][Next]_vars

\* ------------------------------ specification: partial updates, every field

\* Two records of each type can be stored; the updates address the first.
\* A text field is given as None, as the empty string or as a new value; a
\* date with a time of day; an amount with a fraction of a cent.  A call
\* supplies no field, one field, some fields or all of them.
UpdHolders ==
    [id : {1}, name : Opt({"", "Bea"}), contact_number : Opt({<<>>}),
     email : Opt({<<>>}), date_of_birth : {None}]
    \cup [id : {1}, name : {Some(""), Some("Bea")},
          contact_number : {Some(PlusOneNine)}, email : {Some(Bob)},
          date_of_birth : {Some(-1)}]

\* The lowered coverage (9.004, stored as 9.00) is below the stored claims'
\* amount; a premium of 0 makes the policy itself invalid.
UpdPolicies ==
    [id : {1}, type : Opt({""}), start_date : {None}, end_date : {None},
     coverage_amount : {None}, premium : Opt({0})]
    \cup [id : {1}, type : {Some(""), Some("home")},
          start_date : {Some(Today + 1)}, end_date : {Some(Today + 2 * Day + 1)},
          coverage_amount : {Some(9004)}, premium : {Some(10004)}]

UpdClaims ==
    [id : {1}, description : Opt({"", "flood"}), amount : Opt({9996}),
     status : Opt({"Approved"})]

NextUpdates ==
    \/ \E p \in {[id |-> 1, name |-> "Ann", contact_number |-> Nine,
                  email |-> Ann, date_of_birth |-> 0],
                 [id |-> 2, name |-> "Bob", contact_number |-> Nine,
                  email |-> Bob, date_of_birth |-> 0]} :
          create_policyholder(p)
    \/ \E u \in UpdHolders :
          update_policyholder(u.id, u.name, u.contact_number, u.email,
                              u.date_of_birth)
    \/ \E p \in [id : {1, 2}, policyholder_id : {1}, type : {"life"},
                 start_date : {Today}, end_date : {Today + Day},
                 coverage_amount : {10000}, premium : {10000}] :
          create_policy(p)
    \/ \E u \in UpdPolicies :
          update_policy(u.id, u.type, u.start_date, u.end_date,
                        u.coverage_amount, u.premium)
    \/ \E c \in [id : {1, 2}, policy_id : {1}, date_of_incident : {Today},
                 description : {"fire"}, amount : {10000}, status : {SUBMITTED},
                 date_submitted : {Today}] :
          create_claim(c)
    \/ \E u \in UpdClaims :
          update_claim(u.id, u.description, u.amount, u.status)

SpecUpdates == Init /\ [][NextUpdates]_vars

\* ------------------------------------- specification: the claim's lifecycle

\* Two claims on one policy of coverage 10.0, created as Submitted; an update
\* sets any status, or raises the amount above the coverage.
NextStatus ==
    \/ create_policyholder([id |-> 1, name |-> "Ann", contact_number |-> Nine,
                            email |-> Ann, date_of_birth |-> 0])
    \/ create_policy([id |-> 1, policyholder_id |-> 1, type |-> "life",
                      start_date |-> Today, end_date |-> Today + Day,
                      coverage_amount |-> 10000, premium |-> 10000])
    \/ \E c \in [id : {1, 2}, policy_id : {1}, date_of_incident : {Today},
                 description : {"fire"}, amount : {10000}, status : {SUBMITTED},
                 date_submitted : {Today}] :
          create_claim(c)
    \/ \E id \in {1, 2}, amount \in Opt({11000}), status \in Opt(ClaimStatus) :
          update_claim(id, None, amount, status)
    \/ \E id \in {1, 2} : delete_claim(id)

SpecStatus == Init /\ [][NextStatus]_vars

\* --------------------------------- specification: creation, every rejection

\* Each create is offered records that break no rule, a field rule, a
\* business rule, or both; dates carry a time of day, amounts a fraction of a
\* cent, and a claim may be given a status other than the default.
CreateHolders ==
    [id : {1}, name : {"Ann"}, contact_number : {Nine, Eight},
     email : {Ann, NoAt}, date_of_birth : {0, 1, Day, Today + MaxTicks + 1}]

CreatePolicies ==
    [id : {1}, policyholder_id : {1, 2}, type : {"life"},
     start_date : {Today - Day, Today + 1}, end_date : {Today - Day, Today + Day},
     coverage_amount : {0, 10004}, premium : {0, 10000}]

CreateClaims ==
    [id : {1}, policy_id : {1, 2}, date_of_incident : {Today - 1, Today + 1},
     description : {"fire"}, amount : {0, 9996},
     status : {SUBMITTED, "Approved"},
     date_submitted : {Today - 1, Today, Today + 31 * Day + 1}]

NextCreates ==
    \/ Tick
    \/ \E p \in CreateHolders : create_policyholder(p)
    \/ \E p \in CreatePolicies : create_policy(p)
    \/ \E c \in CreateClaims : create_claim(c)
    \/ delete_policyholder(1)
    \/ delete_claim(1)

SpecCreates == Init /\ [][NextCreates]_vars

\* ------------------------------------ specification: the time of day

\* Births at midnight and later in the day: of age at Today (holder 1), of
\* age one day later (holder 2).
TimeHolders ==
    [id : {1}, name : {"Ann"}, contact_number : {Nine}, email : {Ann},
     date_of_birth : {0, 1}]
    \cup [id : {2}, name : {"Bob"}, contact_number : {Nine}, email : {Bob},
          date_of_birth : {Day, Day + 1}]

\* Start and end on different days, each at midnight or later in the day.
TimePolicies ==
    [id : {1}, policyholder_id : {1, 2}, type : {"life"},
     start_date : {Today, Today + 1}, end_date : {Today + Day, Today + Day + 1},
     coverage_amount : {10000}, premium : {10000}]

\* Incident on the first or the day after the last day of the window;
\* submitted the day before the incident, the same day, thirty days or
\* thirty-one days after the first day; each at midnight or later in the day.
TimeClaims ==
    [id : {1}, policy_id : {1}, date_of_incident : {Today, Today + 1,
                                                    Today + 2 * Day,
                                                    Today + 2 * Day + 1},
     description : {"fire"}, amount : {10000}, status : {SUBMITTED},
     date_submitted : {Today - Day, Today - 1, Today, Today + 1,
                       Today + 30 * Day, Today + 30 * Day + 1,
                       Today + 31 * Day, Today + 31 * Day + 1}]

NextTimes ==
    \/ Tick
    \/ \E p \in TimeHolders : create_policyholder(p)
    \/ \E p \in TimePolicies : create_policy(p)
    \/ \E c \in TimeClaims : create_claim(c)
    \/ delete_claim(1)

SpecTimes == Init /\ [][NextTimes]_vars

\* ------------------------- specification: two callers, operations in steps

\* One policyholder, one policy of theirs and one claim on it, each valid.
StepHolder ==
    [id |-> 1, name |-> "Ann", contact_number |-> Nine, email |-> Ann,
     date_of_birth |-> 0]

StepPolicy ==
    [id |-> 1, policyholder_id |-> 1, type |-> "life", start_date |-> Today,
     end_date |-> Today + Day, coverage_amount |-> 10000, premium |-> 10000]

StepClaim ==
    [id |-> 1, policy_id |-> 1, date_of_incident |-> Today,
     description |-> "fire", amount |-> 10000, status |-> SUBMITTED,
     date_submitted |-> Today]

\* One update of each: a new email, a premium of zero, a new status.
StepUpdateHolder ==
    [id |-> 1, name |-> None, contact_number |-> None, email |-> Some(Bob),
     date_of_birth |-> None]

StepUpdatePolicy ==
    [id |-> 1, type |-> None, start_date |-> None, end_date |-> None,
     coverage_amount |-> None, premium |-> Some(0)]

StepUpdateClaim ==
    [id |-> 1, description |-> None, amount |-> None, status |-> Some("Approved")]

NextSteps ==
    \E c \in Callers :
        \/ Call(c, "create_policyholder", StepHolder)
        \/ Call(c, "update_policyholder", StepUpdateHolder)
        \/ Call(c, "delete_policyholder", [id |-> 1])
        \/ Call(c, "create_policy", StepPolicy)
        \/ Call(c, "update_policy", StepUpdatePolicy)
        \/ Call(c, "delete_policy", [id |-> 1])
        \/ Call(c, "create_claim", StepClaim)
        \/ Call(c, "update_claim", StepUpdateClaim)
        \/ Call(c, "delete_claim", [id |-> 1])
        \/ Step(c)

SpecSteps == Init /\ [][NextSteps]_vars

\* A caller inside an operation keeps running, and a statement waiting for a
\* row lock is granted it once the holder's transaction has ended.
SpecStepsFair == SpecSteps /\ \A c \in Callers : SF_vars(Step(c))

\* ------------------------------------------------------------------ claims

\* C1: every stored policy has start_date strictly before end_date, a positive
\* coverage_amount and a positive premium.
C1_StoredPoliciesValid ==
    \A p \in Ids(db.policies) :
        /\ db.policies[p].start_date < db.policies[p].end_date
        /\ db.policies[p].coverage_amount > 0
        /\ db.policies[p].premium > 0

\* C2: every stored claim lies within its policy's window, claims a positive
\* amount of at most the policy's coverage, and was submitted on or after the
\* incident and at most 30 days after it.
C2_StoredClaimsValid ==
    \A c \in Ids(db.claims) :
        /\ db.claims[c].policy_id \in Ids(db.policies)
        /\ LET pol == db.policies[db.claims[c].policy_id]
               clm == db.claims[c]
           IN /\ pol.start_date <= clm.date_of_incident
              /\ clm.date_of_incident <= pol.end_date
              /\ 0 < clm.amount /\ clm.amount <= pol.coverage_amount
              /\ clm.date_submitted >= clm.date_of_incident
              /\ clm.date_submitted - clm.date_of_incident <= SubmitWindowDays

\* C3: an operation that ends in a failure leaves the store as it was before
\* the operation began.
C3_FailureLeavesStoreUnchanged ==
    [][last'.result \in Failures => db' = db]_vars

\* An update whose UPDATE statement had executed when its re-validation failed.
C3_Witness ==
    /\ last.op \in {"update_policy", "update_claim"}
    /\ last.result \in Failures /\ last.wrote

\* C4: every stored policy references a stored policyholder born at least
\* 18 * 365 days before the policy's start_date.
C4_HolderAdultAtPolicyStart ==
    \A p \in Ids(db.policies) :
        /\ db.policies[p].policyholder_id \in Ids(db.policyholders)
        /\ db.policies[p].start_date
             - db.policyholders[db.policies[p].policyholder_id].date_of_birth
             >= AdultDays

\* Table after is table before without the rows gone, the others as they were.
Kept(before, after, gone) ==
    /\ Ids(after) = Ids(before) \ gone
    /\ \A x \in Ids(after) : after[x] = before[x]

\* C5: a successful delete_policyholder(h) leaves no policy owned by h and no
\* claim on a policy h owned; a successful delete_policy(p) leaves no claim on
\* p, and get_claim finds none of them; every other row is unchanged.
C5_DeleteCascades ==
    [][\A id \in AnyId :
        /\ (delete_policyholder(id) /\ last'.result = OK) =>
              LET owned == {p \in Ids(db.policies) :
                                db.policies[p].policyholder_id = id}
                  onOwned == {c \in Ids(db.claims) :
                                db.claims[c].policy_id \in owned}
              IN /\ \A p \in Ids(db'.policies) :
                        db'.policies[p].policyholder_id # id
                 /\ \A c \in Ids(db'.claims) : db'.claims[c].policy_id \notin owned
                 /\ Kept(db.policyholders, db'.policyholders, {id})
                 /\ Kept(db.policies, db'.policies, owned)
                 /\ Kept(db.claims, db'.claims, onOwned)
        /\ (delete_policy(id) /\ last'.result = OK) =>
              LET onIt == {c \in Ids(db.claims) : db.claims[c].policy_id = id}
              IN /\ \A c \in Ids(db'.claims) : db'.claims[c].policy_id # id
                 /\ \A c \in onIt : get_claim(db', c) = None
                 /\ db'.policyholders = db.policyholders
                 /\ Kept(db.policies, db'.policies, {id})
                 /\ Kept(db.claims, db'.claims, onIt)]_vars

\* delete_policyholder removed a policy and a claim, and another holder's
\* policy and claim are still stored.
C5_Witness ==
    /\ last.op = "delete_policyholder" /\ last.result = OK /\ last.cascaded >= 2
    /\ Ids(db.policies) # {} /\ Ids(db.claims) # {}

\* The rule of create_claim as the specification states it.
ClaimAdmissible(d, c) ==
    /\ c.policy_id \in Ids(d.policies)
    /\ LET pol == d.policies[c.policy_id]
           incident == DateOf(c.date_of_incident)
           submitted == DateOf(c.date_submitted)
       IN /\ pol.start_date <= incident /\ incident <= pol.end_date
          /\ 0 < c.amount /\ c.amount <= pol.coverage_amount
          /\ submitted >= incident
          /\ submitted - incident <= SubmitWindowDays

\* C6 as stated: create_claim(c) succeeds if and only if c's policy is stored,
\* the incident is within its window, 0 < amount <= coverage, and the
\* submission is on or after the incident and at most 30 days after it.
C6_CreateClaimIffAdmissible ==
    [][last'.op = "create_claim" =>
        \A c \in ClaimInputs : create_claim(c) =>
            (last'.result = OK <=> ClaimAdmissible(db, c))]_vars

\* C6 as amended: create_claim(c) succeeds if and only if c is admissible and
\* no claim with c's identifier is stored; on success the store gains exactly
\* c's row, otherwise it is unchanged.
C6_CreateClaimIffAdmissibleAndNew ==
    [][last'.op = "create_claim" =>
        \A c \in ClaimInputs : create_claim(c) =>
            /\ last'.result = OK <=>
                 (ClaimAdmissible(db, c) /\ c.id \notin Ids(db.claims))
            /\ last'.result = OK =>
                 db' = [db EXCEPT !.claims = Put(@, c.id, ClaimRow(c))]
            /\ last'.result # OK => db' = db]_vars

C6_Witness ==
    /\ last.op = "create_claim" /\ last.result = OK
    /\ Ids(db.claims) # {}

\* The rule of create_policy as the specification states it.
PolicyAdmissible(d, pol) ==
    /\ pol.policyholder_id \in Ids(d.policyholders)
    /\ pol.start_date < pol.end_date
    /\ pol.coverage_amount > 0
    /\ pol.premium > 0
    /\ DateOf(pol.start_date)
         - d.policyholders[pol.policyholder_id].date_of_birth >= AdultDays

\* C7 as stated: create_policy(pol) succeeds, and stores pol, if and only if
\* the holder is stored, start < end, coverage > 0, premium > 0 and the holder
\* is at least 18 * 365 days old at the start date.
C7_CreatePolicyIffAdmissible ==
    [][last'.op = "create_policy" =>
        \A pol \in PolicyInputs : create_policy(pol) =>
            (last'.result = OK <=> PolicyAdmissible(db, pol))]_vars

\* C7 as amended: create_policy(pol) succeeds if and only if pol is admissible
\* and no policy with pol's identifier is stored; on success the store gains
\* exactly pol's row, otherwise it is unchanged.
C7_CreatePolicyIffAdmissibleAndNew ==
    [][last'.op = "create_policy" =>
        \A pol \in PolicyInputs : create_policy(pol) =>
            /\ last'.result = OK <=>
                 (PolicyAdmissible(db, pol) /\ pol.id \notin Ids(db.policies))
            /\ last'.result = OK =>
                 db' = [db EXCEPT !.policies = Put(@, pol.id, PolicyRow(pol))]
            /\ last'.result # OK => db' = db]_vars

C7_Witness ==
    /\ last.op = "create_policy" /\ last.result = OK
    /\ Ids(db.policies) # {}

\* The rule of create_policyholder as the specification states it.
HolderAdmissible(p, t) ==
    /\ EmailMatches(p.email)
    /\ PhoneMatches(p.contact_number)
    /\ DeltaDays(t - p.date_of_birth) >= AdultDays

\* C8 as stated: create_policyholder(p) succeeds if and only if p's email and
\* contact number match their patterns and p is at least 18 * 365 days old now.
C8_CreateHolderIffAdmissible ==
    [][last'.op = "create_policyholder" =>
        \A p \in HolderInputs : create_policyholder(p) =>
            (last'.result = OK <=> HolderAdmissible(p, now))]_vars

\* C8 as amended: create_policyholder(p) succeeds if and only if p is
\* admissible and no stored policyholder has p's identifier or p's email; on
\* success the store gains exactly p's row, otherwise it is unchanged.
C8_CreateHolderIffAdmissibleAndNew ==
    [][last'.op = "create_policyholder" =>
        \A p \in HolderInputs : create_policyholder(p) =>
            /\ last'.result = OK <=>
                 /\ HolderAdmissible(p, now)
                 /\ p.id \notin Ids(db.policyholders)
                 /\ \A h \in Ids(db.policyholders) :
                        db.policyholders[h].email # p.email
            /\ last'.result = OK =>
                 db' = [db EXCEPT
                          !.policyholders = Put(@, p.id, PolicyholderRow(p))]
            /\ last'.result # OK => db' = db]_vars

\* A second policyholder was created beside a stored one.
C8_Witness ==
    /\ last.op = "create_policyholder" /\ last.result = OK
    /\ Cardinality(Ids(db.policyholders)) = 2

\* C9: every stored policyholder has a matching email, a matching contact
\* number and an age of at least 18 * 365 days, and no two share an email.
C9_StoredHoldersValid ==
    /\ \A h \in Ids(db.policyholders) :
          /\ EmailMatches(db.policyholders[h].email)
          /\ PhoneMatches(db.policyholders[h].contact_number)
          /\ DeltaDays(now - Midnight(db.policyholders[h].date_of_birth))
               >= AdultDays
    /\ \A g, h \in Ids(db.policyholders) :
          g # h => db.policyholders[g].email # db.policyholders[h].email

\* Two policyholders are stored, time has passed, and the last update wrote.
C9_Witness ==
    /\ last.op = "update_policyholder" /\ last.result = OK /\ last.wrote
    /\ Cardinality(Ids(db.policyholders)) = 2
    /\ now > Today

\* C10: delete and update of an identifier that is not stored end in a
\* ValidationError and leave the store unchanged, for each entity type.
C10_MissingIdIsValidationError ==
    [][\A id \in AnyId :
        /\ (id \notin Ids(db.policyholders)
              /\ (delete_policyholder(id) \/ UpdatePolicyholderCall(id)))
             => (last'.result = ValidationError /\ db' = db)
        /\ (id \notin Ids(db.policies)
              /\ (delete_policy(id) \/ UpdatePolicyCall(id)))
             => (last'.result = ValidationError /\ db' = db)
        /\ (id \notin Ids(db.claims)
              /\ (delete_claim(id) \/ UpdateClaimCall(id)))
             => (last'.result = ValidationError /\ db' = db)]_vars

\* An update addressed a missing policy while other policies were stored.
C10_Witness ==
    /\ last.op = "update_policy" /\ last.missing
    /\ last.result = ValidationError
    /\ Ids(db.policies) # {}

\* Table after has the rows of table before, all but row id as they were.
OthersKept(before, after, id) ==
    /\ Ids(after) = Ids(before)
    /\ \A x \in Ids(after) \ {id} : after[x] = before[x]

\* The value the claim expects in a field: the supplied one unless None.
AsStated(old, given) == IF given = None THEN old ELSE Val(given)

\* C11: after a successful update every field supplied with a value other
\* than None holds the supplied value (as its column stores it: a date as its
\* calendar day, an amount rounded to two decimals), every omitted field holds
\* its previous value, and every other record is unchanged.
C11_UpdateWritesSuppliedFields ==
    [][/\ (last'.op = "update_policyholder" /\ last'.result = OK) =>
            \A u \in UpdHolders :
                update_policyholder(u.id, u.name, u.contact_number, u.email,
                                    u.date_of_birth) =>
                    LET old == db.policyholders[u.id] IN
                    /\ db'.policyholders[u.id] =
                         [name |-> AsStated(old.name, u.name),
                          contact_number |->
                              AsStated(old.contact_number, u.contact_number),
                          email |-> AsStated(old.email, u.email),
                          date_of_birth |->
                              IF u.date_of_birth = None THEN old.date_of_birth
                              ELSE DateOf(Val(u.date_of_birth))]
                    /\ OthersKept(db.policyholders, db'.policyholders, u.id)
                    /\ db'.policies = db.policies /\ db'.claims = db.claims
       /\ (last'.op = "update_policy" /\ last'.result = OK) =>
            \A u \in UpdPolicies :
                update_policy(u.id, u.type, u.start_date, u.end_date,
                              u.coverage_amount, u.premium) =>
                    LET old == db.policies[u.id] IN
                    /\ db'.policies[u.id] =
                         [policyholder_id |-> old.policyholder_id,
                          type |-> AsStated(old.type, u.type),
                          start_date |->
                              IF u.start_date = None THEN old.start_date
                              ELSE DateOf(Val(u.start_date)),
                          end_date |->
                              IF u.end_date = None THEN old.end_date
                              ELSE DateOf(Val(u.end_date)),
                          coverage_amount |->
                              IF u.coverage_amount = None THEN old.coverage_amount
                              ELSE ToDecimalColumn(Val(u.coverage_amount)),
                          premium |->
                              IF u.premium = None THEN old.premium
                              ELSE ToDecimalColumn(Val(u.premium))]
                    /\ OthersKept(db.policies, db'.policies, u.id)
                    /\ db'.policyholders = db.policyholders
                    /\ db'.claims = db.claims
       /\ (last'.op = "update_claim" /\ last'.result = OK) =>
            \A u \in UpdClaims :
                update_claim(u.id, u.description, u.amount, u.status) =>
                    LET old == db.claims[u.id] IN
                    /\ db'.claims[u.id] =
                         [policy_id |-> old.policy_id,
                          date_of_incident |-> old.date_of_incident,
                          description |-> AsStated(old.description, u.description),
                          amount |->
                              IF u.amount = None THEN old.amount
                              ELSE ToDecimalColumn(Val(u.amount)),
                          status |-> AsStated(old.status, u.status),
                          date_submitted |-> old.date_submitted]
                    /\ OthersKept(db.claims, db'.claims, u.id)
                    /\ db'.policyholders = db.policyholders
                    /\ db'.policies = db.policies]_vars

\* The claim invariants of a stored claim, against its stored policy.
StoredClaimValid(d, c) ==
    /\ d.claims[c].policy_id \in Ids(d.policies)
    /\ LET pol == d.policies[d.claims[c].policy_id]
           clm == d.claims[c]
       IN /\ pol.start_date <= clm.date_of_incident
          /\ clm.date_of_incident <= pol.end_date
          /\ 0 < clm.amount /\ clm.amount <= pol.coverage_amount
          /\ clm.date_submitted >= clm.date_of_incident
          /\ clm.date_submitted - clm.date_of_incident <= SubmitWindowDays

\* C14: for every stored claim that satisfies the claim invariants, whatever
\* its status s, and every status t, update_claim(id, status=t) succeeds and
\* the stored status becomes t: no status is terminal, no transition rejected.
C14_AnyStatusToAnyStatus ==
    [][\A id \in {1, 2}, t \in ClaimStatus :
          (/\ id \in Ids(db.claims)
           /\ StoredClaimValid(db, id)
           /\ update_claim(id, None, None, Some(t)))
          => /\ last'.result = OK
             /\ db'.claims[id].status = t]_vars

\* Claims are created as Submitted here, so a status was changed and changed
\* again: one claim is Closed, the other was just set and is neither.
C14_Witness ==
    /\ last.op = "update_claim" /\ last.result = OK /\ last.wrote
    /\ Ids(db.claims) = {1, 2}
    /\ \E c \in {1, 2} : db.claims[c].status = "Closed"
    /\ \E c \in {1, 2} : db.claims[c].status \in {"Under Review", "Rejected"}
    /\ \A c \in {1, 2} : StoredClaimValid(db, c)

\* C13: a claim that create_claim has just stored has status Submitted.
C13_CreatedAsSubmitted ==
    [][(last'.op = "create_claim" /\ last'.result = OK) =>
          \A c \in Ids(db'.claims) \ Ids(db.claims) :
              db'.claims[c].status = SUBMITTED]_vars

\* The field, range and reference rules of each create, and its business rule,
\* as the specification words them.
HolderFieldRules(p, t) ==
    EmailMatches(p.email) /\ PhoneMatches(p.contact_number) /\ p.date_of_birth <= t

HolderTooYoung(p, t) == DeltaDays(t - p.date_of_birth) < AdultDays

PolicyFieldRules(d, pol) ==
    /\ pol.policyholder_id \in Ids(d.policyholders)
    /\ pol.start_date < pol.end_date
    /\ pol.coverage_amount > 0 /\ pol.premium > 0

HolderTooYoungAtStart(d, pol) ==
    DateOf(pol.start_date) - d.policyholders[pol.policyholder_id].date_of_birth
        < AdultDays

ClaimFieldRules(d, c) ==
    /\ c.policy_id \in Ids(d.policies)
    /\ d.policies[c.policy_id].start_date <= DateOf(c.date_of_incident)
    /\ DateOf(c.date_of_incident) <= d.policies[c.policy_id].end_date
    /\ 0 < c.amount /\ c.amount <= d.policies[c.policy_id].coverage_amount
    /\ DateOf(c.date_submitted) >= DateOf(c.date_of_incident)

SubmittedLate(c) ==
    DateOf(c.date_submitted) - DateOf(c.date_of_incident) > SubmitWindowDays

\* C15: a rejected create fails with BusinessRuleViolation exactly when every
\* field, range and reference rule passes and the age rule or the 30-day rule
\* fails; when a field, range or reference rule fails it fails with
\* ValidationError, also when the business rule fails as well.
C15_FailureKindOfCreate ==
    [][/\ (last'.op = "create_policyholder" /\ last'.result \in Failures) =>
            \A p \in CreateHolders : create_policyholder(p) =>
                /\ last'.result = BusinessRuleViolation <=>
                     (HolderFieldRules(p, now) /\ HolderTooYoung(p, now))
                /\ ~HolderFieldRules(p, now) => last'.result = ValidationError
       /\ (last'.op = "create_policy" /\ last'.result \in Failures) =>
            \A pol \in CreatePolicies : create_policy(pol) =>
                /\ last'.result = BusinessRuleViolation <=>
                     (PolicyFieldRules(db, pol) /\ HolderTooYoungAtStart(db, pol))
                /\ ~PolicyFieldRules(db, pol) => last'.result = ValidationError
       /\ (last'.op = "create_claim" /\ last'.result \in Failures) =>
            \A c \in CreateClaims : create_claim(c) =>
                /\ last'.result = BusinessRuleViolation <=>
                     (ClaimFieldRules(db, c) /\ SubmittedLate(c))
                /\ ~ClaimFieldRules(db, c) => last'.result = ValidationError]_vars

\* A claim on a stored policy was rejected for a late submission.
C15_Witness ==
    /\ last.op = "create_claim" /\ last.result = BusinessRuleViolation
    /\ Ids(db.policies) # {}

\* C16 as stated: get(id) right after a successful create(record) returns a
\* record equal to the created one in every field, dates compared as calendar
\* days and the claim status as the enumeration member.
C16_GetReturnsCreated ==
    [][/\ (last'.op = "create_policyholder" /\ last'.result = OK) =>
            \A p \in CreateHolders : create_policyholder(p) =>
                /\ get_policyholder(db', p.id) # None
                /\ LET got == Val(get_policyholder(db', p.id)) IN
                   /\ got.id = p.id /\ got.name = p.name
                   /\ got.contact_number = p.contact_number
                   /\ got.email = p.email
                   /\ DateOf(got.date_of_birth) = DateOf(p.date_of_birth)
       /\ (last'.op = "create_policy" /\ last'.result = OK) =>
            \A pol \in CreatePolicies : create_policy(pol) =>
                /\ get_policy(db', pol.id) # None
                /\ LET got == Val(get_policy(db', pol.id)) IN
                   /\ got.id = pol.id
                   /\ got.policyholder_id = pol.policyholder_id
                   /\ got.type = pol.type
                   /\ DateOf(got.start_date) = DateOf(pol.start_date)
                   /\ DateOf(got.end_date) = DateOf(pol.end_date)
                   /\ got.coverage_amount = pol.coverage_amount
                   /\ got.premium = pol.premium
       /\ (last'.op = "create_claim" /\ last'.result = OK) =>
            \A c \in CreateClaims : create_claim(c) =>
                /\ get_claim(db', c.id) # None
                /\ LET got == Val(get_claim(db', c.id)) IN
                   /\ got.id = c.id /\ got.policy_id = c.policy_id
                   /\ DateOf(got.date_of_incident) = DateOf(c.date_of_incident)
                   /\ got.description = c.description
                   /\ got.amount = c.amount
                   /\ got.status = c.status
                   /\ DateOf(got.date_submitted) = DateOf(c.date_submitted)]_vars

\* C16 as amended: the same, with the amounts of the returned record equal to
\* the created record's amounts rounded to two decimals.
C16_GetReturnsCreatedRounded ==
    [][/\ (last'.op = "create_policyholder" /\ last'.result = OK) =>
            \A p \in CreateHolders : create_policyholder(p) =>
                /\ get_policyholder(db', p.id) # None
                /\ LET got == Val(get_policyholder(db', p.id)) IN
                   /\ got.id = p.id /\ got.name = p.name
                   /\ got.contact_number = p.contact_number
                   /\ got.email = p.email
                   /\ DateOf(got.date_of_birth) = DateOf(p.date_of_birth)
       /\ (last'.op = "create_policy" /\ last'.result = OK) =>
            \A pol \in CreatePolicies : create_policy(pol) =>
                /\ get_policy(db', pol.id) # None
                /\ LET got == Val(get_policy(db', pol.id)) IN
                   /\ got.id = pol.id
                   /\ got.policyholder_id = pol.policyholder_id
                   /\ got.type = pol.type
                   /\ DateOf(got.start_date) = DateOf(pol.start_date)
                   /\ DateOf(got.end_date) = DateOf(pol.end_date)
                   /\ got.coverage_amount = ToDecimalColumn(pol.coverage_amount)
                   /\ got.premium = ToDecimalColumn(pol.premium)
       /\ (last'.op = "create_claim" /\ last'.result = OK) =>
            \A c \in CreateClaims : create_claim(c) =>
                /\ get_claim(db', c.id) # None
                /\ LET got == Val(get_claim(db', c.id)) IN
                   /\ got.id = c.id /\ got.policy_id = c.policy_id
                   /\ DateOf(got.date_of_incident) = DateOf(c.date_of_incident)
                   /\ got.description = c.description
                   /\ got.amount = ToDecimalColumn(c.amount)
                   /\ got.status = c.status
                   /\ DateOf(got.date_submitted) = DateOf(c.date_submitted)]_vars

\* A claim was created and all three records of its chain can be read back.
C16_Witness ==
    /\ last.op = "create_claim" /\ last.result = OK
    /\ get_policyholder(db, 1) # None /\ get_policy(db, 1) # None
    /\ get_claim(db, 1) # None

\* The invariants of a stored policyholder at time t, of a stored policy.
StoredHolderValid(d, h, t) ==
    /\ EmailMatches(d.policyholders[h].email)
    /\ PhoneMatches(d.policyholders[h].contact_number)
    /\ DeltaDays(t - Midnight(d.policyholders[h].date_of_birth)) >= AdultDays

StoredPolicyValid(d, p) ==
    /\ d.policies[p].policyholder_id \in Ids(d.policyholders)
    /\ d.policies[p].start_date < d.policies[p].end_date
    /\ d.policies[p].coverage_amount > 0 /\ d.policies[p].premium > 0
    /\ d.policies[p].start_date
         - d.policyholders[d.policies[p].policyholder_id].date_of_birth
         >= AdultDays

\* C20: for each entity type, an update of a stored record that
\* supplies no field writes nothing, hands the stored record to the full
\* validation, and fails if and only if the record does not pass it.
C20_EmptyUpdateRevalidates ==
    [][/\ (1 \in Ids(db.policyholders)
             /\ update_policyholder(1, None, None, None, None))
            => /\ db' = db /\ ~last'.wrote
               /\ last'.validated
               /\ last'.result = OK <=> StoredHolderValid(db, 1, now)
       /\ (1 \in Ids(db.policies)
             /\ update_policy(1, None, None, None, None, None))
            => /\ db' = db /\ ~last'.wrote
               /\ last'.validated
               /\ last'.result = OK <=> StoredPolicyValid(db, 1)
       /\ (1 \in Ids(db.claims) /\ update_claim(1, None, None, None))
            => /\ db' = db /\ ~last'.wrote
               /\ last'.validated
               /\ last'.result = OK <=> StoredClaimValid(db, 1)]_vars

\* C12: an operation that raises reaches its caller with one of the three
\* kinds ValidationError, BusinessRuleViolation and DatabaseError: at the end
\* of its unit of work, and after it, its outcome is success or one of them.
C12_OnlyThreeFailureKinds ==
    \A c \in Callers :
        calls[c].pc \in {"exit", "idle"} => calls[c].result \in {OK} \cup Failures

\* C17: the record update_policy and update_claim hand to the re-validation
\* is the record as the transaction of the UPDATE holds it, the values just
\* written included.
C17_RevalidatesWhatWasWritten ==
    \A c \in Callers :
        calls[c].op \in {"update_policy", "update_claim"} /\ calls[c].pc = "validate"
            => calls[c].updated = GetOf(calls[c].op, View(c), calls[c].args.id)

\* C18: a caller never has more than one connection open.
C18_OneConnectionPerOperation ==
    \A c \in Callers : Len(conns[c]) <= 1

\* C19: an operation in progress ends, and a caller that is not inside an
\* operation has no connection open: every connection the operation opened
\* was closed, with its transaction committed, rolled back or discarded.
C19_TerminatesWithConnectionsClosed ==
    /\ [](\A c \in Callers : calls[c].pc = "idle" => conns[c] = <<>>)
    /\ \A c \in Callers : (calls[c].pc # "idle") ~> (calls[c].pc = "idle")

\* An update that opened a second connection for its get has ended in a
\* failure and holds no connection.
C19_Witness ==
    \E c \in Callers :
        /\ calls[c].pc = "idle" /\ calls[c].op \in Updates
        /\ calls[c].result \in Failures
        /\ conns[c] = <<>>

\* The instants of the calendar day of t.
TimesOfDay(t) == {Midnight(DateOf(t)) + k : k \in 0..(TicksPerDay - 1)}

\* The validation rejected the record (a duplicate is rejected by the store).
Rejected(result) == result \in {ValidationError, BusinessRuleViolation}

\* C21: a create whose dates fall on the same calendar days as those of
\* another input, which is otherwise equal, is rejected by its validation if
\* and only if the validation rejects the other input, at every time of the
\* current day: age against the current time, age at the start of the policy,
\* incident within the window, submission not before the incident and within
\* thirty days of it.
C21_TimeOfDayIrrelevant ==
    [][/\ \A p \in TimeHolders : create_policyholder(p) =>
             \A q \in TimeHolders, t \in TimesOfDay(now) :
                 q = [p EXCEPT !.date_of_birth = q.date_of_birth]
                   /\ DateOf(q.date_of_birth) = DateOf(p.date_of_birth)
                 => (Rejected(last'.result) <=> validate_policyholder(q, t) # OK)
       /\ \A p \in TimePolicies : create_policy(p) =>
             \A q \in TimePolicies :
                 q = [p EXCEPT !.start_date = q.start_date,
                               !.end_date = q.end_date]
                   /\ DateOf(q.start_date) = DateOf(p.start_date)
                   /\ DateOf(q.end_date) = DateOf(p.end_date)
                 => (Rejected(last'.result) <=> validate_policy(db, q) # OK)
       /\ \A c \in TimeClaims : create_claim(c) =>
             \A q \in TimeClaims :
                 q = [c EXCEPT !.date_of_incident = q.date_of_incident,
                               !.date_submitted = q.date_submitted]
                   /\ DateOf(q.date_of_incident) = DateOf(c.date_of_incident)
                   /\ DateOf(q.date_submitted) = DateOf(c.date_submitted)
                 => (Rejected(last'.result) <=> validate_claim(db, q) # OK)]_vars

\* The relation an update addresses, in the store d.
RelationOf(op, d) ==
    CASE op = "update_policyholder" -> d.policyholders
      [] op = "update_policy" -> d.policies
      [] op = "update_claim" -> d.claims

\* C22: an update, whatever deletes other callers commit while it runs, ends
\* with success or one of the three failure kinds; when it ends with success
\* the record is stored at its commit and holds the supplied values (writing
\* them once more changes nothing); when the record is not stored at its end
\* it ends with ValidationError.
C22_UpdateAgainstDelete ==
    \A c \in Callers :
        calls[c].op \in Updates /\ calls[c].pc = "exit" =>
            LET call == calls[c]
                stmt == StatementOf(call.op, call.args)
            IN /\ call.result \in {OK} \cup Failures
               /\ call.result = OK =>
                      /\ call.args.id \in Ids(RelationOf(call.op, View(c)))
                      /\ Exec(View(c), stmt).db = View(c)
               /\ call.args.id \notin Ids(RelationOf(call.op, db)) =>
                      call.result = ValidationError

====
